---- MODULE Spec2Model ----
(***************************************************************************)
(* throttle-cpu-temp: a thermal governor.  The main thread samples the     *)
(* temperature, compares it with the threshold given on the command line,  *)
(* and spawns short-lived threads that lower or raise the frequency        *)
(* ceiling kept in the global FREQUENCY mutex and written to every CPU's   *)
(* scaling_max_freq file.                                                  *)
(*                                                                         *)
(* Threads interleave arbitrarily: the sleeps and delays of the program    *)
(* order nothing, they only let time pass.  Unsigned arithmetic is u64 in  *)
(* the program; here it is Width bits wide, and the inputs keep the        *)
(* separation the real ones have (frequencies and temperatures are far     *)
(* below the top of the range).  Overflow panics in a build with overflow  *)
(* checks (the dev profile) and wraps in one without (the release          *)
(* profile): overflow_checks says which build runs.                        *)
(***************************************************************************)
EXTENDS Integers, Sequences, FiniteSets, Bags, TLC

\* ------------------------------------------------------------- constants

\* const STEP_FREQ
STEP_FREQ == 100000

\* the width of the unsigned integers of the model (u64 in the program)
Width == 23

\* num_cpus::get()
NumCpus == 2

\* the number of entries of POSSIBLE_TEMP_FILES the model keeps
NumTempFiles == 2

\* the number of adjustment threads alive at once
MaxTasks == 2

U64 == 2 ^ Width

\* ------------------------------------------------------------ arithmetic

\* a - b on unsigned integers: the wrapped value, and whether it overflowed
WrapSub(a, b) == (a - b + U64) % U64
SubOverflows(a, b) == b > a

\* a + b on unsigned integers
WrapAdd(a, b) == (a + b) % U64
AddOverflows(a, b) == a + b >= U64

\* (DEACCR_RATIO * temp_diff as f64) as u64, with DEACCR_RATIO = 1/4: the
\* product is exact in f64 for these magnitudes and the cast truncates
DeaccrSteps(temp_diff) == temp_diff \div 4

\* --------------------------------------------------------- environment

\* a file that does not exist or cannot be opened (file contents are numbers)
Missing == 0 - 1

\* what scaling_max_freq holds before the program first writes it
Untouched == 0 - 2

\* the command lines tried: args[1..] (args[0] is the program's name)
ArgLines == { <<>>, <<"x">>, <<"3">>, <<"70">>, <<"70", "1">> }

\* str::parse::<u64> on the arguments the model uses
ParseU64(s) ==
    CASE s = "3" -> [ok |-> TRUE, val |-> 3]
      [] s = "70" -> [ok |-> TRUE, val |-> 70]
      [] OTHER -> [ok |-> FALSE, val |-> 0]

\* cpuinfo_min_freq and cpuinfo_max_freq: the pairs tried (min <= max)
FreqFiles ==
    { <<120000, 300000>>, <<700000, 1200000>>, <<Missing, 300000>>,
      <<120000, Missing>> }

\* what a temperature file can read, in thousandths of a degree, with
\* threshold T: under one degree, and readings around T and T - 5 (the
\* first is just under T - 5 degrees and truncates to T - 6)
TempReadings(T) ==
    { 300 } \cup
    { r \in { 1000 * (T - 5) - 1, 1000 * (T - 5), 1000 * T + 999,
              1000 * (T + 1), 1000 * (T + 15) + 500 } : r >= 0 }

CPUs == 0 .. (NumCpus - 1)

TempFiles == 1 .. NumTempFiles

\* --------------------------------------------------------- pure functions

\* get_temp's loop over POSSIBLE_TEMP_FILES from entry i on: a file that
\* exists is read and divided by 1000, and the running maximum is kept
RECURSIVE GetTempFrom(_, _, _)
GetTempFrom(files, i, max_seen) ==
    IF i > NumTempFiles THEN max_seen
    ELSE IF files[i] = Missing THEN GetTempFrom(files, i + 1, max_seen)
    ELSE LET sensor_temp == files[i] \div 1000
         IN  GetTempFrom(files, i + 1,
                         IF max_seen < sensor_temp THEN sensor_temp ELSE max_seen)

\* a get_temp that answers one degree when it found nothing
GetTemp_Fallback(files) ==
    IF GetTempFrom(files, 1, 0) = 0 THEN 1 ELSE GetTempFrom(files, 1, 0)

\* get_temp's result before its check for 0
GetTemp(files) == GetTempFrom(files, 1, 0)

\* the sources that exist (history: what the sample is measured against)
Present(files) == { i \in TempFiles : files[i] # Missing }

\* the highest reading of the sources that exist, in whole degrees, 0 when
\* there is none (history)
HighestPresent(files) ==
    LET S == { files[i] \div 1000 : i \in Present(files) }
    IN  IF S = {} THEN 0 ELSE CHOOSE m \in S : \A x \in S : x <= m

\* what a tick's get_temp can meet and compute: for every choice of the
\* files present and of their readings, get_temp's value before its check
\* for 0, whether any source exists, and the highest reading present
Samplings(T) ==
    { [temp |-> GetTemp(files),
       present |-> Present(files) # {},
       highest |-> HighestPresent(files)] :
        files \in [TempFiles -> TempReadings(T) \cup {Missing}] }

\* what get_temp can compute on a tick
SampledTemps(T) == { s.temp : s \in Samplings(T) }

\* the outcomes of set_freq: every file written ("ok"), or n files written
\* and then File::create or write_all failing on file n ("failed": the
\* unwrap panics; a sysfs attribute keeps its value when a write fails)
SetFreqOutcomes ==
    { [n |-> NumCpus, how |-> "ok"] }
        \cup { [n |-> k, how |-> "failed"] : k \in CPUs }

\* a set_freq whose loop stops one CPU short
SetFreq_SkipsLast(files, freq, o) ==
    [c \in CPUs |-> IF c < o.n /\ c < NumCpus - 1 THEN freq ELSE files[c]]

\* set_freq: the files after outcome o
SetFreq(files, freq, o) ==
    [c \in CPUs |-> IF c < o.n THEN freq ELSE files[c]]

\* DecreaseFreq without the test against max_freq that catches the wrap:
\* the penalty is always subtracted
DecreaseFreq_NoWrapGuard(cur, t, threshold, lo, hi, checked) ==
    IF checked /\ SubOverflows(cur, STEP_FREQ)
    THEN [freq |-> cur, panic |-> TRUE]
    ELSE LET c1 == WrapSub(cur, STEP_FREQ)
             new_freq == STEP_FREQ * DeaccrSteps(WrapSub(t, threshold))
         IN  IF checked /\ SubOverflows(c1, new_freq)
             THEN [freq |-> c1, panic |-> TRUE]
             ELSE LET c2 == WrapSub(c1, new_freq)
                  IN  [freq |-> IF c2 < lo THEN lo ELSE c2, panic |-> FALSE]

\* the body of the decrease thread's closure up to set_freq: the new
\* value of *cur_freq, and whether the thread panicked (an overflow in a
\* build with overflow checks); checked is that build flag
DecreaseFreq(cur, t, threshold, lo, hi, checked) ==
    IF checked /\ SubOverflows(cur, STEP_FREQ)
    THEN [freq |-> cur, panic |-> TRUE]
    ELSE LET c1 == WrapSub(cur, STEP_FREQ)
             temp_diff == WrapSub(t, threshold)
             new_freq == STEP_FREQ * DeaccrSteps(temp_diff)
         IN  IF checked /\ SubOverflows(t, threshold)
             THEN [freq |-> c1, panic |-> TRUE]
             ELSE IF temp_diff > 0
             THEN IF checked /\ SubOverflows(c1, new_freq)
                  THEN [freq |-> c1, panic |-> TRUE]
                  ELSE LET c2 == IF WrapSub(c1, new_freq) > hi
                                 THEN lo
                                 ELSE WrapSub(c1, new_freq)
                       IN  [freq |-> IF c2 < lo THEN lo ELSE c2,
                            panic |-> FALSE]
             ELSE [freq |-> IF c1 < lo THEN lo ELSE c1, panic |-> FALSE]

\* IncreaseFreq without the clamp to max_freq
IncreaseFreq_NoClamp(cur, hi, checked) ==
    IF checked /\ AddOverflows(cur, STEP_FREQ)
    THEN [freq |-> cur, panic |-> TRUE]
    ELSE [freq |-> WrapAdd(cur, STEP_FREQ), panic |-> FALSE]

\* the body of the increase thread's closure up to set_freq
IncreaseFreq(cur, hi, checked) ==
    IF checked /\ AddOverflows(cur, STEP_FREQ)
    THEN [freq |-> cur, panic |-> TRUE]
    ELSE LET c1 == WrapAdd(cur, STEP_FREQ)
         IN  [freq |-> IF c1 > hi THEN hi ELSE c1, panic |-> FALSE]

\* the loop's first test, temp > max_temp
OverThreshold(t, threshold) == t > threshold

\* the loop's second test, temp < (max_temp - 5): "panic" when the
\* subtraction overflows in a build with overflow checks
UnderBand(t, threshold, checked) ==
    IF checked /\ SubOverflows(threshold, 5) THEN "panic"
    ELSE IF t < WrapSub(threshold, 5) THEN "yes" ELSE "no"

\* ------------------------------------------------------------------ state

VARIABLES
    overflow_checks,  \* the build: TRUE when integer overflow panics
    args,             \* the command line after the program's name
    freq_files,       \* <<cpuinfo_min_freq, cpuinfo_max_freq>>
    pc,               \* where the main thread is
    exit_code,        \* <<>> while the process runs, <<status>> once it ended
    max_temp,         \* main's max_temp: the threshold
    min_freq,         \* main's min_freq
    max_freq,         \* main's max_freq
    temp,             \* main's temp: this tick's sample
    cur_freq,         \* the u64 inside FREQUENCY
    locked,           \* FREQUENCY's mutex is held
    poisoned,         \* FREQUENCY's mutex is poisoned
    cpu,              \* every CPU's scaling_max_freq
    tasks,            \* the adjustment threads alive, a bag of records
    tick,             \* what this tick read and launched (history)
    hold,             \* what the thread holding the mutex saw (history)
    last              \* what the step just taken did (history)

vars ==
    << overflow_checks, args, freq_files, pc, exit_code, max_temp, min_freq,
       max_freq, temp, cur_freq, locked, poisoned, cpu, tasks, tick, hold,
       last >>

env == << overflow_checks, args, freq_files >>

\* the value of a read that was not made
Unread == 0 - 1

NoTick ==
    [read_decr |-> Unread, read_incr |-> Unread, launched |-> "none",
     present |-> FALSE, highest |-> 0]

NoHold == [kind |-> "none", f0 |-> 0, lost |-> FALSE]

\* the record of a step: op names it; the other fields are those of a
\* thread that ended (its kind, its captured temp, what try_lock gave it,
\* the state before the step, and how the thread ended)
Event(op) ==
    [op |-> op, kind |-> "none", temp |-> 0, lock |-> "none",
     rival |-> FALSE, before |-> 0,
     cpu_before |-> [c \in CPUs |-> Untouched], f0 |-> 0, lost |-> FALSE,
     peer |-> FALSE, was_poisoned |-> FALSE, how |-> "none"]

Running == exit_code = <<>>

\* a thread just spawned: kind is "decr" or "incr", t the temp it captured
NewTask(kind, t) ==
    [kind |-> kind, pc |-> "spawned", temp |-> t, lock |-> "none",
     rival |-> FALSE, peer |-> FALSE]

Add(bag, t) == bag (+) SetToBag({t})

Remove(bag, t) == bag (-) SetToBag({t})

Init ==
    /\ overflow_checks \in BOOLEAN
    /\ args \in ArgLines
    /\ freq_files \in FreqFiles
    /\ pc = "boot"
    /\ exit_code = <<>>
    /\ max_temp = 0
    /\ min_freq = 0
    /\ max_freq = 0
    /\ temp = 0
    /\ cur_freq = 0
    /\ locked = FALSE
    /\ poisoned = FALSE
    /\ cpu = [c \in CPUs |-> Untouched]
    /\ tasks = EmptyBag
    /\ tick = NoTick
    /\ hold = NoHold
    /\ last = Event("init")

\* process::exit(status), or the main thread's panic (status 101)
Exit(status) ==
    /\ pc' = "exited"
    /\ exit_code' = <<status>>

\* ------------------------------------------------------------ main thread

\* main up to the loop: the arguments, the bounds, FREQUENCY's lazy
\* initialisation and the first set_freq
Startup ==
    /\ Running /\ pc = "boot"
    /\ last' = Event("startup")
    /\ UNCHANGED << env, temp, locked, poisoned, tasks, tick, hold >>
    /\ IF Len(args) + 1 # 2 \/ ~ParseU64(args[1]).ok
       THEN /\ Exit(1)
            /\ UNCHANGED << max_temp, min_freq, max_freq, cur_freq, cpu >>
       ELSE IF freq_files[1] = Missing \/ freq_files[2] = Missing
       THEN /\ Exit(101)
            /\ max_temp' = ParseU64(args[1]).val
            /\ UNCHANGED << min_freq, max_freq, cur_freq, cpu >>
       ELSE /\ max_temp' = ParseU64(args[1]).val
            /\ min_freq' = freq_files[1]
            /\ max_freq' = freq_files[2]
            /\ cur_freq' = freq_files[2]
            /\ \E o \in SetFreqOutcomes :
                  /\ cpu' = SetFreq(cpu, freq_files[2], o)
                  /\ IF o.how = "ok"
                     THEN pc' = "sample" /\ UNCHANGED exit_code
                     ELSE Exit(101)

\* let temp = get_temp(): the files present and their readings are the
\* environment's choice; a sample of 0 ends the process with status 1.  The
\* program spawns without limit: here a tick starts only while fewer than
\* MaxTasks threads are alive
Sample ==
    /\ Running /\ pc = "sample"
    /\ BagCardinality(tasks) < MaxTasks
    /\ last' = Event("sample")
    /\ UNCHANGED << env, max_temp, min_freq, max_freq, cur_freq, locked,
                    poisoned, cpu, tasks, hold >>
    /\ \E s \in Samplings(max_temp) :
          /\ tick' = [NoTick EXCEPT !.present = s.present,
                                    !.highest = s.highest]
          /\ IF s.temp = 0
             THEN Exit(1) /\ UNCHANGED temp
             ELSE /\ temp' = s.temp
                  /\ pc' = "cond_decr"
                  /\ UNCHANGED exit_code

\* temp > max_temp && *FREQUENCY.lock().unwrap() ...: the test of temp, and
\* when it passes the blocking lock(), whose unwrap panics on a poisoned
\* mutex
CondDecr ==
    /\ Running /\ pc = "cond_decr"
    /\ last' = Event("cond_decr")
    /\ UNCHANGED << env, max_temp, min_freq, max_freq, temp, cur_freq,
                    poisoned, cpu, tasks, tick, hold >>
    /\ IF OverThreshold(temp, max_temp)
       THEN /\ ~locked
            /\ IF poisoned
               THEN Exit(101) /\ UNCHANGED locked
               ELSE locked' = TRUE /\ pc' = "read_decr" /\ UNCHANGED exit_code
       ELSE pc' = "cond_incr" /\ UNCHANGED << locked, exit_code >>

\* ... > min_freq under the guard, the guard's drop, and thread::spawn of
\* the decrease thread
ReadDecr ==
    /\ Running /\ pc = "read_decr"
    /\ UNCHANGED << env, exit_code, max_temp, min_freq, max_freq, temp,
                    cur_freq, poisoned, cpu, hold >>
    /\ locked' = FALSE
    /\ IF cur_freq > min_freq
       THEN /\ tasks' = Add(tasks, NewTask("decr", temp))
            /\ tick' = [tick EXCEPT !.read_decr = cur_freq, !.launched = "decr"]
            /\ pc' = "sleep"
            /\ last' = Event("launch_decr")
       ELSE /\ tick' = [tick EXCEPT !.read_decr = cur_freq]
            /\ pc' = "cond_incr"
            /\ last' = Event("read_decr")
            /\ UNCHANGED tasks

\* temp < (max_temp - 5) && *FREQUENCY.lock().unwrap() ...
CondIncr ==
    /\ Running /\ pc = "cond_incr"
    /\ last' = Event("cond_incr")
    /\ UNCHANGED << env, max_temp, min_freq, max_freq, temp, cur_freq,
                    poisoned, cpu, tasks, tick, hold >>
    /\ LET under == UnderBand(temp, max_temp, overflow_checks)
       IN  IF under = "panic"
           THEN Exit(101) /\ UNCHANGED locked
           ELSE IF under = "yes"
           THEN /\ ~locked
                /\ IF poisoned
                   THEN Exit(101) /\ UNCHANGED locked
                   ELSE /\ locked' = TRUE
                        /\ pc' = "read_incr"
                        /\ UNCHANGED exit_code
           ELSE pc' = "sleep" /\ UNCHANGED << locked, exit_code >>

\* ... < max_freq under the guard, the guard's drop, and thread::spawn of
\* the increase thread
ReadIncr ==
    /\ Running /\ pc = "read_incr"
    /\ UNCHANGED << env, exit_code, max_temp, min_freq, max_freq, temp,
                    cur_freq, poisoned, cpu, hold >>
    /\ locked' = FALSE
    /\ pc' = "sleep"
    /\ IF cur_freq < max_freq
       THEN /\ tasks' = Add(tasks, NewTask("incr", 0))
            /\ tick' = [tick EXCEPT !.read_incr = cur_freq, !.launched = "incr"]
            /\ last' = Event("launch_incr")
       ELSE /\ tick' = [tick EXCEPT !.read_incr = cur_freq]
            /\ last' = Event("read_incr")
            /\ UNCHANGED tasks

\* thread::sleep, and the loop's next turn
Sleep ==
    /\ Running /\ pc = "sleep"
    /\ pc' = "sample"
    /\ temp' = 0
    /\ tick' = NoTick
    /\ last' = Event("sleep")
    /\ UNCHANGED << env, exit_code, max_temp, min_freq, max_freq, cur_freq,
                    locked, poisoned, cpu, tasks, hold >>

\* ------------------------------------------------------ adjustment threads

\* a try_lock that succeeds on a mutex another thread holds
TryLockResult_IgnoresHolder(is_locked, is_poisoned) ==
    IF is_poisoned THEN "poisoned" ELSE "ok"

\* FREQUENCY.try_lock() on a mutex that is held (is_locked) or poisoned:
\* "busy" is Err(WouldBlock); "poisoned" is Err(Poisoned(guard)), whose
\* guard the thread keeps until it ends; "ok" is Ok(guard)
TryLockResult(is_locked, is_poisoned) ==
    IF is_locked THEN "busy"
    ELSE IF is_poisoned THEN "poisoned"
    ELSE "ok"

\* a try_lock whose guard is dropped at once instead of being kept in
\* lock: the thread goes through its delay without the mutex
TryLock_DropsGuard(t) ==
    /\ Running /\ t.pc = "spawned"
    /\ LET res == TryLockResult(locked, poisoned)
           t2 == [t EXCEPT !.pc = "delay", !.lock = res,
                           !.rival = (locked /\ hold.kind = "decr")]
       IN  /\ tasks' = Add(Remove(tasks, t), t2)
           /\ hold' = IF res = "busy" THEN hold
                      ELSE [kind |-> IF res = "ok" THEN t.kind ELSE "poisoned",
                            f0 |-> cur_freq, lost |-> FALSE]
           /\ last' = [Event("try_lock") EXCEPT !.kind = t.kind, !.lock = res]
    /\ UNCHANGED << env, pc, exit_code, max_temp, min_freq, max_freq, temp,
                    cur_freq, locked, poisoned, cpu, tick >>

\* let mut lock = FREQUENCY.try_lock(): the first statement of both threads
TryLock(t) ==
    /\ Running /\ t.pc = "spawned"
    /\ LET res == TryLockResult(locked, poisoned)
           t2 == [t EXCEPT !.pc = "delay", !.lock = res,
                           !.rival = (locked /\ hold.kind = "decr")]
       IN  /\ tasks' = Add(Remove(tasks, t), t2)
           /\ locked' = (locked \/ res # "busy")
           /\ hold' = IF res = "busy"
                      THEN [hold EXCEPT !.lost =
                               @ \/ (t.kind = "decr" /\ hold.kind = "decr")]
                      ELSE [kind |-> IF res = "ok" THEN t.kind ELSE "poisoned",
                            f0 |-> cur_freq, lost |-> FALSE]
           /\ last' = [Event("try_lock") EXCEPT !.kind = t.kind, !.lock = res]
    /\ UNCHANGED << env, pc, exit_code, max_temp, min_freq, max_freq, temp,
                    cur_freq, poisoned, cpu, tick >>

\* a closure that takes the overshoot from the main thread's latest sample
\* instead of the one it captured
Adjusted_Resamples(t) ==
    IF t.kind = "decr"
    THEN DecreaseFreq(cur_freq, IF temp > max_temp THEN temp ELSE t.temp,
                      max_temp, min_freq, max_freq, overflow_checks)
    ELSE IncreaseFreq(cur_freq, max_freq, overflow_checks)

\* what the closure computes for *cur_freq before set_freq
Adjusted(t) ==
    IF t.kind = "decr"
    THEN DecreaseFreq(cur_freq, t.temp, max_temp, min_freq, max_freq,
                      overflow_checks)
    ELSE IncreaseFreq(cur_freq, max_freq, overflow_checks)

\* the record of a thread's end
EndEvent(op, t, how) ==
    [Event(op) EXCEPT !.kind = t.kind, !.temp = t.temp, !.lock = t.lock,
                      !.rival = t.rival, !.before = cur_freq,
                      !.cpu_before = cpu, !.f0 = hold.f0, !.lost = hold.lost,
                      !.peer = t.peer, !.was_poisoned = poisoned,
                      !.how = how]

\* the other decrease threads alive learn that a decrease thread stored a
\* new value (history)
MarkPeers(bag, t, stored) ==
    IF stored /\ t.kind = "decr"
    THEN BagOfAll(LAMBDA x : IF x.kind = "decr" THEN [x EXCEPT !.peer = TRUE]
                                                ELSE x, bag)
    ELSE bag

\* a thread that stores and writes, and ends without dropping its guard
Mutate_KeepsGuard(t) ==
    /\ Running /\ t.pc = "delay" /\ t.lock = "ok"
    /\ LET r == Adjusted(t)
       IN  /\ cur_freq' = r.freq
           /\ tasks' = MarkPeers(Remove(tasks, t), t, ~r.panic)
           /\ poisoned' = r.panic
           /\ cpu' = IF r.panic THEN cpu ELSE [c \in CPUs |-> r.freq]
           /\ last' = EndEvent("mutate", t,
                                IF r.panic THEN "overflow" ELSE "done")
    /\ UNCHANGED << env, pc, exit_code, max_temp, min_freq, max_freq, temp,
                    locked, hold, tick >>

\* after the Delay, a thread whose try_lock gave Ok: the arithmetic on
\* *cur_freq, set_freq, and the guard's drop as the thread ends; a panic
\* (an overflow, a failed write) ends the thread and poisons the mutex
Mutate(t) ==
    /\ Running /\ t.pc = "delay" /\ t.lock = "ok"
    /\ LET r == Adjusted(t)
       IN  /\ cur_freq' = r.freq
           /\ locked' = FALSE
           /\ hold' = NoHold
           /\ IF r.panic
              THEN /\ poisoned' = TRUE
                   /\ cpu' = cpu
                   /\ tasks' = Remove(tasks, t)
                   /\ last' = EndEvent("mutate", t, "overflow")
              ELSE /\ tasks' = MarkPeers(Remove(tasks, t), t, TRUE)
                   /\ \E o \in SetFreqOutcomes :
                         /\ cpu' = SetFreq(cpu, r.freq, o)
                         /\ poisoned' = (o.how # "ok")
                         /\ last' = EndEvent("mutate", t,
                                       IF o.how = "ok" THEN "done"
                                                       ELSE "write_failed")
    /\ UNCHANGED << env, pc, exit_code, max_temp, min_freq, max_freq, temp,
                    tick >>

\* a thread whose try_lock gave Err and that mutates and writes all the
\* same, as it would had it waited for the mutex
Skip_MutatesAnyway(t) ==
    /\ Running /\ t.pc = "delay" /\ t.lock # "ok"
    /\ tasks' = Remove(tasks, t)
    /\ locked' = IF t.lock = "poisoned" THEN FALSE ELSE locked
    /\ hold' = IF t.lock = "poisoned" THEN NoHold ELSE hold
    /\ cur_freq' = Adjusted(t).freq
    /\ cpu' = [c \in CPUs |-> Adjusted(t).freq]
    /\ last' = EndEvent("skip", t, "done")
    /\ UNCHANGED << env, pc, exit_code, max_temp, min_freq, max_freq, temp,
                    poisoned, tick >>

\* after the Delay, a thread whose try_lock gave Err: the closure does
\* nothing and the thread ends, dropping the guard a Poisoned error holds
Skip(t) ==
    /\ Running /\ t.pc = "delay" /\ t.lock # "ok"
    /\ tasks' = Remove(tasks, t)
    /\ locked' = IF t.lock = "poisoned" THEN FALSE ELSE locked
    /\ hold' = IF t.lock = "poisoned" THEN NoHold ELSE hold
    /\ last' = EndEvent("skip", t, "done")
    /\ UNCHANGED << env, pc, exit_code, max_temp, min_freq, max_freq, temp,
                    cur_freq, poisoned, cpu, tick >>

TaskTryLock == \E t \in BagToSet(tasks) : TryLock(t)

TaskMutate == \E t \in BagToSet(tasks) : Mutate(t)

TaskSkip == \E t \in BagToSet(tasks) : Skip(t)

Next ==
    \/ Startup
    \/ Sample
    \/ CondDecr
    \/ ReadDecr
    \/ CondIncr
    \/ ReadIncr
    \/ Sleep
    \/ TaskTryLock
    \/ TaskMutate
    \/ TaskSkip

Spec == Init /\ [][Next]_vars

\* the main thread's next statement
MainStep ==
    \/ Startup
    \/ Sample
    \/ CondDecr
    \/ ReadDecr
    \/ CondIncr
    \/ ReadIncr
    \/ Sleep

\* the scheduler lets the main thread and every thread that can run take
\* its next step; a thread's sleep and its Delay end
Fairness ==
    /\ WF_vars(MainStep)
    /\ WF_vars(TaskTryLock)
    /\ WF_vars(TaskMutate)
    /\ WF_vars(TaskSkip)

FairSpec == Spec /\ Fairness

\* a thread's try_lock finds the mutex free
TaskAcquire == \E t \in BagToSet(tasks) : TryLock(t) /\ ~locked

\* besides, the threads' try_locks do not all fall into the moments in
\* which the mutex is held: the main thread holds it for one comparison out
\* of a tick of 500 ms, and a thread's try_lock is its first statement
AcquireFairSpec == FairSpec /\ SF_vars(TaskAcquire)

\* ----------------------------------------------------------------- claims

Max(a, b) == IF a >= b THEN a ELSE b

\* the threads alive that hold FREQUENCY's guard: Ok(guard), or the guard
\* inside Err(Poisoned(guard))
Holders == BagCardinality([t \in { x \in BagToSet(tasks) :
                                   x.pc = "delay" /\ x.lock \in {"ok", "poisoned"} }
                           |-> CopiesIn(t, tasks)])

MainHolds == pc \in {"read_decr", "read_incr"}

\* the step just taken ended a thread that ran its closure's mutation
Mutated(kind) == last.op = "mutate" /\ last.kind = kind

\* C1: in every reachable state (every closure runs in one step, so no state
\* shows a mutation half done), at startup and after any adjustment,
\* min <= current_frequency <= max
C1_AlwaysInBounds == min_freq <= cur_freq /\ cur_freq <= max_freq

\* the main thread is inside FREQUENCY.lock() and a thread holds the guard
MainBlocked ==
    /\ Running /\ locked
    /\ \/ pc = "cond_decr" /\ OverThreshold(temp, max_temp)
       \/ pc = "cond_incr" /\ UnderBand(temp, max_temp, overflow_checks) = "yes"

\* C2: the control loop is never blocked until an adjustment thread ends
C2_NeverBlocked == ~MainBlocked

C4_OneHolderAcrossDelay ==
    /\ \A t \in BagToSet(tasks) :
          /\ t.pc = "spawned" <=> t.lock = "none"
          /\ (t.pc = "delay" /\ t.lock = "ok") =>
                /\ locked
                /\ hold.kind = t.kind
                /\ cur_freq = hold.f0
    /\ Holders + (IF MainHolds THEN 1 ELSE 0) = (IF locked THEN 1 ELSE 0)
    /\ last.op = "mutate" => last.lock = "ok" /\ last.before = last.f0

\* C4's case: one thread holds the guard in its delay while another, that
\* tried while it held, waits out its own delay without it
C4_Witness ==
    /\ \E t \in BagToSet(tasks) : t.pc = "delay" /\ t.lock = "ok"
    /\ \E t \in BagToSet(tasks) : t.pc = "delay" /\ t.lock = "busy"

\* C5: a thread whose try_lock failed ends in a step that leaves
\* current_frequency and every CPU's file unchanged and raises no error: the
\* mutex is not poisoned by it and the process runs on
C5_FailedTaskChangesNothing ==
    last.op = "skip" =>
        /\ last.lock \in {"busy", "poisoned"}
        /\ cur_freq = last.before
        /\ cpu = last.cpu_before
        /\ poisoned = last.was_poisoned
        /\ Running

\* C5's case: a thread that found the mutex held has ended, while the
\* frequency is below max (an earlier decrease went through)
C5_Witness ==
    /\ last.op = "skip" /\ last.lock = "busy"
    /\ cur_freq < max_freq

\* the dead band, on the integers: T - 5 <= t <= T
InDeadBand(t, T) == T - 5 <= t /\ t <= T

\* C6: a tick whose sample is in the dead band launches no thread
C6_DeadBandLaunchesNothing ==
    (pc = "sleep" /\ InDeadBand(temp, max_temp)) => tick.launched = "none"

\* what C7 says a tick launches, from the sample and the values it read
C7_Expected ==
    IF /\ temp > max_temp
       /\ tick.read_decr # Unread
       /\ tick.read_decr > min_freq
    THEN "decr"
    ELSE IF /\ temp < max_temp - 5
            /\ tick.read_incr # Unread
            /\ tick.read_incr < max_freq
    THEN "incr"
    ELSE "none"

\* C7: at the end of a tick's decision, what was launched is a decrease
\* thread exactly when temp > threshold and the value read is > min,
\* otherwise an increase thread exactly when temp < threshold - 5 and the
\* value read is < max, otherwise nothing
C7_DecisionTable == pc = "sleep" => tick.launched = C7_Expected

\* C8: a decrease never leaves current_frequency higher than it found it,
\* and an increase never lower
C8_DirectionMonotone ==
    /\ Mutated("decr") => cur_freq <= last.before
    /\ Mutated("incr") => cur_freq >= last.before

\* C8's case: an increase thread has completed and raised the frequency,
\* which an earlier decrease had lowered
C8_Witness ==
    /\ Mutated("incr") /\ last.how = "done"
    /\ cur_freq > last.before

\* C9: a decrease thread that got the guard leaves
\* max(min, f - STEP_FREQ * (1 + floor((t - T) / 4)))
C9_DecreaseFormula ==
    Mutated("decr") =>
        cur_freq = Max(min_freq,
                       last.before
                         - STEP_FREQ * (1 + ((last.temp - max_temp) \div 4)))

\* C10: with current_frequency = min, a tick over the threshold launches
\* nothing, and a decrease thread launched earlier leaves it at min
C10_FloorIdempotent ==
    /\ (pc = "sleep" /\ temp > max_temp /\ tick.read_decr = min_freq) =>
          tick.launched # "decr"
    /\ (Mutated("decr") /\ last.before = min_freq) => cur_freq = min_freq

\* C11: with current_frequency = max, a tick under the band launches no
\* increase, and an increase thread launched earlier leaves it at max
C11_CeilingIdempotent ==
    /\ (pc = "sleep" /\ tick.read_incr = max_freq) => tick.launched # "incr"
    /\ (Mutated("incr") /\ last.before = max_freq) => cur_freq = max_freq

\* C11's case: an increase thread, launched below max, got the guard after
\* another increase had reached max, and has stored and written
C11_Witness ==
    /\ Mutated("incr") /\ last.how = "done"
    /\ last.before = max_freq

\* C12: a failed write to a CPU's file inside an adjustment thread ends the
\* process at once
C12_WriteFailureEndsProcess ==
    (last.op = "mutate" /\ last.how = "write_failed") => ~Running

\* C13: the process never ends with status 0, and when it ends at startup
\* (arguments, bounds files, first write) or in get_temp its status is 1
C13_ExitStatusOne ==
    /\ exit_code # <<0>>
    /\ (~Running /\ last.op \in {"startup", "sample"}) => exit_code = <<1>>

\* C14: a tick that finds no source ends the process with status 1 and
\* launches nothing, and a tick that decides does so on the highest reading
\* of sources that exist, never on a made-up value
C14_NoSourceIsFatal ==
    /\ (last.op = "sample" /\ ~tick.present) =>
          /\ exit_code = <<1>>
          /\ tick.launched = "none"
    /\ pc \in {"cond_decr", "read_decr", "cond_incr", "read_incr", "sleep"} =>
          /\ tick.present
          /\ temp = tick.highest

\* C14's case: a tick found none of the sources and the process has ended,
\* after an earlier tick had launched a thread
C14_Witness ==
    /\ last.op = "sample" /\ ~tick.present /\ ~Running
    /\ tasks # EmptyBag

\* C15: a tick on which a source exists goes on to its decision with the
\* highest reading present, in whole degrees
C15_SampleIsHighestPresent ==
    (last.op = "sample" /\ tick.present) =>
        /\ Running
        /\ pc = "cond_decr"
        /\ temp = tick.highest

\* the amount C16 has a decrease subtract, from the sample t
C16_Lowered(f, t) ==
    Max(min_freq, f - STEP_FREQ * (1 + ((t - max_temp) \div 4)))

\* C16: what a decrease thread subtracts is computed from the sample it
\* captured when it was launched (a thread that panics subtracted the step
\* at most)
C16_CapturedSampleDecides ==
    Mutated("decr") =>
        IF last.how = "overflow"
        THEN cur_freq \in {last.before, last.before - STEP_FREQ}
        ELSE cur_freq = C16_Lowered(last.before, last.temp)

\* C16's case: a decrease thread has stored its value while the main
\* thread holds a later sample, over the threshold, that would have given
\* another value
C16_Witness ==
    /\ Mutated("decr") /\ last.how = "done"
    /\ temp > max_temp /\ temp # last.temp
    /\ cur_freq # C16_Lowered(last.before, temp)

\* startup is over and went through
StartupDone == pc # "boot" /\ (Running \/ last.op # "startup")

\* C19: once startup is over, with no failed write and no panic, whenever
\* nobody holds the mutex every CPU's file holds current_frequency
C19_FilesFollowFrequency ==
    (StartupDone /\ ~poisoned /\ ~locked) =>
        \A c \in CPUs : cpu[c] = cur_freq

\* C19's case: a decrease thread has stored, written and released
C19_Witness ==
    /\ Mutated("decr") /\ last.how = "done" /\ ~locked
    /\ cur_freq < last.before
    /\ \A c \in CPUs : cpu[c] = cur_freq

\* the run is outside C17's premise: startup did not go through, a sample
\* was not above the threshold (a sample of 0 ends the process), or a write
\* to a CPU's file failed
C17_PremiseBroken ==
    \/ ~Running /\ last.op \in {"init", "startup"}
    \/ last.op = "sample" /\ (~Running \/ temp <= max_temp)
    \/ last.op = "mutate" /\ last.how = "write_failed"

\* C17: under fair scheduling, a run in which every sample is above the
\* threshold and no I/O fails reaches current_frequency = min
C17_EventuallyFloor == <>(C17_PremiseBroken \/ (StartupDone /\ cur_freq = min_freq))

\* a live thread's next step, whatever its try_lock gave
TaskStep(t) == TryLock(t) \/ Mutate(t) \/ Skip(t)

\* C18, the threads: while the process runs no thread is ever waiting (its
\* next step, the try_lock or the end of its closure, can be taken, and
\* fair scheduling takes it), and a thread that ends having had a guard
\* leaves the mutex free
C18_TasksEndAndRelease ==
    /\ Running => \A t \in BagToSet(tasks) : ENABLED TaskStep(t)
    /\ (last.op = "mutate" \/ (last.op = "skip" /\ last.lock = "poisoned")) =>
          ~locked /\ Holders = 0

\* C18: under fair scheduling, as long as the process has not ended, the
\* mutex is free again and again and the main thread samples again and
\* again, and the threads end and release as above
C18_LoopKeepsTicking ==
    /\ []C18_TasksEndAndRelease
    /\ []<>(~locked \/ ~Running)
    /\ []<>(last.op = "sample" \/ ~Running)

\* C18's case: the main thread has sampled again after a thread that held
\* the guard through its delay ended and released it, with the process
\* running and the mutex never poisoned
C18_Witness ==
    /\ last.op = "sample" /\ Running /\ ~poisoned /\ ~locked
    /\ cur_freq < max_freq
    /\ tasks # EmptyBag

====
